---- MODULE Spec2Model ----
(***************************************************************************)
(* The conversation canvas of akeshwani2/tree: the ChatNode tree held in   *)
(* React state by Home(), its mutation handlers, the streaming client      *)
(* handleNewMessage and the auto-layout effect.                            *)
(*                                                                         *)
(* Units.  x and y are kept in HALF PIXELS, heights and the three layout   *)
(* constants in pixels: the layout code divides pixel lengths by two, so   *)
(* with integer heights every coordinate it produces is a multiple of half *)
(* a pixel.  Half(v) is v/2 pixels and Full(v) is v pixels, both as        *)
(* half-pixel counts.                                                      *)
(*                                                                         *)
(* Three specifications share the module.  Spec is the canvas (LiveSpec:   *)
(* the canvas under the runtime's fairness), SelectionSpec applies         *)
(* truncateSelection to selections of up to MaxLines lines, and RouteSpec  *)
(* follows one request through a proxy route (/api/assistant, and the      *)
(* plain and the tool-augmented /api/chat).  Each leaves the variables of  *)
(* the others at rest.                                                     *)
(*                                                                         *)
(* Scheduling.  Every setChatTree / setLayoutMode call re-renders Home and *)
(* React runs the layout effect synchronously in that commit, before any   *)
(* other event or promise callback: effectPending is TRUE exactly while    *)
(* such a run is due, and only LayoutEffect is enabled then.               *)
(***************************************************************************)
EXTENDS Integers, Sequences, FiniteSets, TLC

(* ---- program constants ------------------------------------------------ *)
CARD_WIDTH == 700
HORIZONTAL_SPACING == 100
VERTICAL_SPACING == 80
maxChars == 240
RootId == 1
RootX == 725
RootY == 500
RootHeight == 200
NewNodeHeight == 150

(* ---- bounds of the model ---------------------------------------------- *)
(* A run is explored within one budget, fixed when it starts.  A budget   *)
(* caps the cards on the canvas, the messages sent, the drag moves         *)
(* handled, how far the clock advances and the layout-mode toggles: the    *)
(* budgets trade cards for messages, so that large trees and concurrent    *)
(* streams are both explored.                                              *)
MaxNodes == 4
MaxSends == 2
MaxDrags == 2
MaxClock == 3
MaxToggles == 2
MaxLines == 3

Budget(n, s, d, c, t) ==
    [nodes |-> n, sends |-> s, drags |-> d, clock |-> c, toggles |-> t]

Budgets ==
    { Budget(MaxNodes, 0, MaxDrags - 1, MaxClock, MaxToggles),
      Budget(MaxNodes - 1, 0, MaxDrags, MaxClock - 1, MaxToggles - 1),
      Budget(MaxNodes - 1, MaxSends - 1, 0, MaxClock - 1, MaxToggles - 1),
      Budget(MaxNodes - 2, MaxSends - 1, MaxDrags - 1, MaxClock - 2, MaxToggles - 2),
      Budget(MaxNodes - 2, MaxSends, 0, MaxClock - 2, MaxToggles - 2) }

Half(v) == v
Full(v) == 2 * v

(* An optional value: None is JavaScript's undefined / null.               *)
None == <<>>
Some(v) == <<v>>

(* el.clientHeight of a rendered card, in pixels (always > 0).             *)
Heights == {100, 200}

(* Where a drag can drop a card (canvas coordinates, half pixels).         *)
DragTargets == {<<Full(40), Full(60)>>, <<Full(1700), Full(450)>>}

(* Text the user can type into a card's input.                             *)
Messages == {"q"}

(* Text selections handed to handleCreateFromSelection, as character       *)
(* sequences.                                                              *)
Selections == {<<"a", "\n", "b">>}

(* Response bodies: the byte chunks reader.read() yields, in order.  A     *)
(* chunk is a sequence of byte groups: an ASCII run stands for itself,     *)
(* "C3" and "A9" are the lead and the continuation byte of a two-byte      *)
(* UTF-8 character.                                                        *)
Streams == {<< <<"Hel">>, <<"lo">>, <<" world">> >>,
            << <<"C3">>, <<"A9">> >>}

(* ---- plain helpers ---------------------------------------------------- *)
RECURSIVE SumSeq(_)
SumSeq(s) == IF s = <<>> THEN 0 ELSE Head(s) + SumSeq(Tail(s))

Max(a, b) == IF a >= b THEN a ELSE b

(* ---- ChatNode --------------------------------------------------------- *)
(* manualPosition and isThinking are optional booleans in the source; an   *)
(* absent one is read as falsy everywhere, and is FALSE here.              *)
ChatNode(id, quotedText) ==
    [id |-> id, quotedText |-> quotedText, children |-> <<>>,
     x |-> 0, y |-> 0, height |-> NewNodeHeight,
     manualPosition |-> FALSE, conversation |-> <<>>, isThinking |-> FALSE]

InitialTree ==
    << [id |-> RootId, quotedText |-> None, children |-> <<>>,
        x |-> Full(RootX), y |-> Full(RootY), height |-> RootHeight,
        manualPosition |-> FALSE, conversation |-> <<>>,
        isThinking |-> FALSE] >>

(* flatChats: the nodes in pre-order, without their children.              *)
RECURSIVE flatten(_)
flatten(nodes) ==
    IF nodes = <<>> THEN <<>>
    ELSE LET node == Head(nodes)
         IN  << [id |-> node.id, x |-> node.x, y |-> node.y,
                 height |-> node.height, quotedText |-> node.quotedText,
                 conversation |-> node.conversation,
                 isThinking |-> node.isThinking] >>
             \o flatten(node.children) \o flatten(Tail(nodes))

flatIds(nodes) == LET f == flatten(nodes) IN {f[i].id : i \in DOMAIN f}

(* ---- truncateSelection ------------------------------------------------ *)
IsSpace(c) == c \in {" ", "\n", "\r", "\t"}

RECURSIVE TrimStart(_)
TrimStart(t) ==
    IF t # <<>> /\ IsSpace(Head(t)) THEN TrimStart(Tail(t)) ELSE t

RECURSIVE TrimEnd(_)
TrimEnd(t) ==
    IF t # <<>> /\ IsSpace(t[Len(t)]) THEN TrimEnd(SubSeq(t, 1, Len(t) - 1))
    ELSE t

Trim(t) == TrimEnd(TrimStart(t))

(* text.split(/\r?\n/): the text up to the first newline (less a carriage *)
(* return right before it) is a line, after whatever cur already holds of  *)
(* it; the rest is split in the same way.                                  *)
RECURSIVE SplitLines(_, _)
SplitLines(t, cur) ==
    LET breaks == {i \in DOMAIN t : t[i] = "\n"}
    IN  IF breaks = {} THEN <<cur \o t>>
        ELSE LET i == CHOOSE b \in breaks : \A c \in breaks : b <= c
                 last == IF i > 1 /\ t[i - 1] = "\r" THEN i - 2 ELSE i - 1
             IN  <<cur \o SubSeq(t, 1, last)>> \o SplitLines(SubSeq(t, i + 1, Len(t)), <<>>)

(* lines.filter(Boolean): only the empty string is falsy.                  *)
RECURSIVE FilterBoolean(_)
FilterBoolean(lines) ==
    IF lines = <<>> THEN <<>>
    ELSE IF Head(lines) = <<>> THEN FilterBoolean(Tail(lines))
    ELSE <<Head(lines)>> \o FilterBoolean(Tail(lines))

RECURSIVE Join(_, _)
Join(lines, sep) ==
    IF lines = <<>> THEN <<>>
    ELSE IF Len(lines) = 1 THEN Head(lines)
    ELSE Head(lines) \o <<sep>> \o Join(Tail(lines), sep)

Ellipsis == "<U+2026>"

truncateSelection(text) ==
    LET lines == FilterBoolean(SplitLines(Trim(text), <<>>))
        firstTwo == Join(SubSeq(lines, 1, IF Len(lines) < 2 THEN Len(lines) ELSE 2), " ")
    IN  IF Len(firstTwo) > maxChars
        THEN SubSeq(firstTwo, 1, maxChars) \o <<Ellipsis>>
        ELSE firstTwo

(* ---- tree mutations (the updaters handed to setChatTree) -------------- *)
(* addChild that also hangs the new node on every childless node it meets. *)
RECURSIVE addChildToLeaves(_, _, _)
addChildToLeaves(nodes, sourceChatId, newNode) ==
    [i \in DOMAIN nodes |->
        LET node == nodes[i]
        IN  IF node.id = sourceChatId \/ Len(node.children) = 0
            THEN [node EXCEPT !.children = Append(node.children, newNode)]
            ELSE [node EXCEPT !.children =
                                  addChildToLeaves(node.children, sourceChatId, newNode)]]

RECURSIVE addChild(_, _, _)
addChild(nodes, sourceChatId, newNode) ==
    [i \in DOMAIN nodes |->
        LET node == nodes[i]
        IN  IF node.id = sourceChatId
            THEN [node EXCEPT !.children = Append(node.children, newNode)]
            ELSE IF Len(node.children) > 0
            THEN [node EXCEPT !.children = addChild(node.children, sourceChatId, newNode)]
            ELSE node]

RECURSIVE FilterId(_, _)
FilterId(nodes, chatId) ==
    IF nodes = <<>> THEN <<>>
    ELSE IF Head(nodes).id # chatId
         THEN <<Head(nodes)>> \o FilterId(Tail(nodes), chatId)
         ELSE FilterId(Tail(nodes), chatId)

(* removeNode without the descent into the children that are kept.        *)
removeNodeShallow(nodes, chatId) == FilterId(nodes, chatId)

RECURSIVE removeNode(_, _)
removeNode(nodes, chatId) ==
    LET newNodes == FilterId(nodes, chatId)
    IN  [i \in DOMAIN newNodes |->
            [newNodes[i] EXCEPT !.children = removeNode(newNodes[i].children, chatId)]]

(* moveChildren without the descent below the direct children.            *)
moveChildrenShallow(children, dx, dy) ==
    [i \in DOMAIN children |->
        [children[i] EXCEPT !.x = children[i].x + dx, !.y = children[i].y + dy]]

RECURSIVE moveChildren(_, _, _)
moveChildren(children, dx, dy) ==
    [i \in DOMAIN children |->
        [children[i] EXCEPT !.x = children[i].x + dx,
                            !.y = children[i].y + dy,
                            !.children = moveChildren(children[i].children, dx, dy)]]

(* updatePosition that flips the manual flag instead of setting it.        *)
RECURSIVE updatePositionToggling(_, _, _, _)
updatePositionToggling(nodes, chatId, x, y) ==
    [i \in DOMAIN nodes |->
        LET node == nodes[i]
        IN  IF node.id = chatId
            THEN [node EXCEPT !.x = x, !.y = y,
                              !.children = moveChildren(node.children, x - node.x, y - node.y),
                              !.manualPosition = ~node.manualPosition]
            ELSE [node EXCEPT !.children =
                                  updatePositionToggling(node.children, chatId, x, y)]]

RECURSIVE updatePosition(_, _, _, _)
updatePosition(nodes, chatId, x, y) ==
    [i \in DOMAIN nodes |->
        LET node == nodes[i]
        IN  IF node.id = chatId
            THEN [node EXCEPT !.x = x, !.y = y,
                              !.children = moveChildren(node.children, x - node.x, y - node.y),
                              !.manualPosition = TRUE]
            ELSE [node EXCEPT !.children = updatePosition(node.children, chatId, x, y)]]

RECURSIVE appendMessage(_, _, _)
appendMessage(nodes, chatId, message) ==
    [i \in DOMAIN nodes |->
        LET node == nodes[i]
        IN  IF node.id = chatId
            THEN [node EXCEPT !.conversation =
                                  Append(node.conversation,
                                         [role |-> "user", content |-> message]),
                              !.isThinking = TRUE]
            ELSE [node EXCEPT !.children = appendMessage(node.children, chatId, message)]]

(* setErrorState that also reports the failure in the conversation.        *)
RECURSIVE setErrorStateWithMessage(_, _)
setErrorStateWithMessage(nodes, chatId) ==
    [i \in DOMAIN nodes |->
        LET node == nodes[i]
        IN  IF node.id = chatId
            THEN [node EXCEPT !.conversation =
                                  Append(node.conversation,
                                         [role |-> "assistant", content |-> "error"]),
                              !.isThinking = FALSE]
            ELSE [node EXCEPT !.children = setErrorStateWithMessage(node.children, chatId)]]

RECURSIVE setErrorState(_, _)
setErrorState(nodes, chatId) ==
    [i \in DOMAIN nodes |->
        LET node == nodes[i]
        IN  IF node.id = chatId
            THEN [node EXCEPT !.isThinking = FALSE]
            ELSE [node EXCEPT !.children = setErrorState(node.children, chatId)]]

(* addAssistantPlaceholder computed from the conversation the handler saw  *)
(* when it was called, before its own user message was appended.           *)
RECURSIVE addAssistantPlaceholderStale(_, _)
addAssistantPlaceholderStale(nodes, chatId) ==
    [i \in DOMAIN nodes |->
        LET node == nodes[i]
            n == Len(node.conversation)
        IN  IF node.id = chatId
            THEN [node EXCEPT !.conversation =
                                  Append(SubSeq(node.conversation, 1, n - 1),
                                         [role |-> "assistant", content |-> ""]),
                              !.isThinking = FALSE]
            ELSE [node EXCEPT !.children = addAssistantPlaceholderStale(node.children, chatId)]]

RECURSIVE addAssistantPlaceholder(_, _)
addAssistantPlaceholder(nodes, chatId) ==
    [i \in DOMAIN nodes |->
        LET node == nodes[i]
        IN  IF node.id = chatId
            THEN [node EXCEPT !.conversation =
                                  Append(node.conversation,
                                         [role |-> "assistant", content |-> ""]),
                              !.isThinking = FALSE]
            ELSE [node EXCEPT !.children = addAssistantPlaceholder(node.children, chatId)]]

(* decoder.decode(value) without {stream: true}: every chunk is decoded on *)
(* its own, so a multi-byte character cut by a chunk boundary comes out as *)
(* replacement characters.                                                 *)
Replacement == "<U+FFFD>"

RECURSIVE decode(_)
decode(value) ==
    IF value = <<>> THEN ""
    ELSE IF Head(value) = "C3"
         THEN IF Len(value) >= 2 /\ value[2] = "A9"
              THEN "<U+00E9>" \o decode(Tail(Tail(value)))
              ELSE Replacement \o decode(Tail(value))
    ELSE IF Head(value) = "A9" THEN Replacement \o decode(Tail(value))
    ELSE Head(value) \o decode(Tail(value))

(* appendResponseChunk with the chunk put in front of the content.         *)
RECURSIVE appendResponseChunkInFront(_, _, _)
appendResponseChunkInFront(nodes, chatId, chunkValue) ==
    [i \in DOMAIN nodes |->
        LET node == nodes[i]
            n == Len(node.conversation)
        IN  IF node.id = chatId /\ n > 0 /\ node.conversation[n].role = "assistant"
            THEN [node EXCEPT !.conversation[n].content = chunkValue \o @]
            ELSE [node EXCEPT !.children =
                                  appendResponseChunkInFront(node.children, chatId, chunkValue)]]

(* appendResponseChunk without the test of the last message's role.        *)
RECURSIVE appendResponseChunkAnyRole(_, _, _)
appendResponseChunkAnyRole(nodes, chatId, chunkValue) ==
    [i \in DOMAIN nodes |->
        LET node == nodes[i]
            n == Len(node.conversation)
        IN  IF node.id = chatId /\ n > 0
            THEN [node EXCEPT !.conversation[n].content = @ \o chunkValue]
            ELSE [node EXCEPT !.children =
                                  appendResponseChunkAnyRole(node.children, chatId, chunkValue)]]

RECURSIVE appendResponseChunk(_, _, _)
appendResponseChunk(nodes, chatId, chunkValue) ==
    [i \in DOMAIN nodes |->
        LET node == nodes[i]
            n == Len(node.conversation)
        IN  IF node.id = chatId /\ n > 0 /\ node.conversation[n].role = "assistant"
            THEN [node EXCEPT !.conversation[n].content = @ \o chunkValue]
            ELSE [node EXCEPT !.children =
                                  appendResponseChunk(node.children, chatId, chunkValue)]]

(* ---- the layout effect ------------------------------------------------ *)
(* JSON.parse(JSON.stringify(chatTree)): a deep copy, field by field.  A   *)
(* key holding undefined is left out of the text and reads back as         *)
(* undefined; the numbers of the tree are finite, so none becomes null.    *)
RECURSIVE JSONCopy(_)
JSONCopy(nodes) ==
    [i \in DOMAIN nodes |->
        [id |-> nodes[i].id, quotedText |-> nodes[i].quotedText,
         children |-> JSONCopy(nodes[i].children),
         x |-> nodes[i].x, y |-> nodes[i].y, height |-> nodes[i].height,
         manualPosition |-> nodes[i].manualPosition,
         conversation |-> [k \in DOMAIN nodes[i].conversation |->
                              [role |-> nodes[i].conversation[k].role,
                               content |-> nodes[i].conversation[k].content]],
         isThinking |-> nodes[i].isThinking]]

(* The passes below return the tree they leave and whether they set        *)
(* hasChanges.  clientHeight[id] is the height of the first element with   *)
(* data-chat-id = id; every node of the committed tree is rendered, so the *)
(* element exists and its height is positive.                              *)
(* updateHeights that sets hasChanges for every node it visits.            *)
RECURSIVE updateHeightsAlways(_, _)
updateHeightsAlways(nodes, clientHeight) ==
    LET r == [i \in DOMAIN nodes |->
                 LET node == nodes[i]
                     sub == updateHeightsAlways(node.children, clientHeight)
                 IN  [node EXCEPT !.height = clientHeight[node.id],
                                  !.children = sub.nodes]]
    IN  [nodes |-> r, changed |-> nodes # <<>>]

RECURSIVE updateHeights(_, _)
updateHeights(nodes, clientHeight) ==
    LET r == [i \in DOMAIN nodes |->
                 LET node == nodes[i]
                     differs == node.height # clientHeight[node.id]
                     sub == updateHeights(node.children, clientHeight)
                 IN  [node |-> [node EXCEPT
                                  !.height = IF differs THEN clientHeight[node.id] ELSE @,
                                  !.children = sub.nodes],
                      changed |-> differs \/ sub.changed]]
    IN  [nodes |-> [i \in DOMAIN nodes |-> r[i].node],
         changed |-> \E i \in DOMAIN nodes : r[i].changed]

(* sizes.reduce((acc, w) => acc + w + gap, -gap)                           *)
RECURSIVE ReduceGap(_, _, _)
ReduceGap(sizes, gap, acc) ==
    IF sizes = <<>> THEN acc
    ELSE ReduceGap(Tail(sizes), gap, acc + Head(sizes) + gap)

RECURSIVE getSubtreeWidth(_)
getSubtreeWidth(node) ==
    IF Len(node.children) = 0 THEN CARD_WIDTH
    ELSE ReduceGap([i \in DOMAIN node.children |-> getSubtreeWidth(node.children[i])],
                   HORIZONTAL_SPACING, -HORIZONTAL_SPACING)

(* getSubtreeHeight that forgets the children.                            *)
getSubtreeHeightOwn(node) == node.height

RECURSIVE getSubtreeHeight(_)
getSubtreeHeight(node) ==
    IF Len(node.children) = 0 THEN node.height
    ELSE Max(node.height,
             ReduceGap([i \in DOMAIN node.children |-> getSubtreeHeight(node.children[i])],
                       VERTICAL_SPACING, -VERTICAL_SPACING))

(* Moves with hasChanges set on every write, and Moves without the        *)
(* manualPosition test.                                                    *)
MovesUnconditionally(child, newX, newY) == ~child.manualPosition

MovesManualToo(child, newX, newY) == child.x # newX \/ child.y # newY

(* A child is written only when it is not manually positioned and its      *)
(* position differs.                                                       *)
Moves(child, newX, newY) ==
    ~child.manualPosition /\ (child.x # newX \/ child.y # newY)

RECURSIVE positionChildrenV(_)
RECURSIVE forEachChildV(_, _, _)
(* children.forEach of layoutVertical.positionChildren, from child i on    *)
forEachChildV(node, i, xOffset) ==
    IF i > Len(node.children) THEN [nodes |-> <<>>, changed |-> FALSE]
    ELSE LET child == node.children[i]
             childWidth == getSubtreeWidth(child)
             newX == xOffset + Half(childWidth) - Half(CARD_WIDTH)
             newY == node.y + Full(node.height) + Full(VERTICAL_SPACING)
             moved == Moves(child, newX, newY)
             placed == IF moved THEN [child EXCEPT !.x = newX, !.y = newY] ELSE child
             sub == positionChildrenV(placed)
             rest == forEachChildV(node, i + 1,
                                   xOffset + Full(childWidth + HORIZONTAL_SPACING))
         IN  [nodes |-> <<sub.node>> \o rest.nodes,
              changed |-> moved \/ sub.changed \/ rest.changed]

(* positionChildrenV with the row starting at the parent's left edge.      *)
positionChildrenVUncentred(node) ==
    IF Len(node.children) = 0 THEN [node |-> node, changed |-> FALSE]
    ELSE LET r == forEachChildV(node, 1, node.x)
         IN  [node |-> [node EXCEPT !.children = r.nodes], changed |-> r.changed]

positionChildrenV(node) ==
    IF Len(node.children) = 0 THEN [node |-> node, changed |-> FALSE]
    ELSE LET totalWidth ==
                 ReduceGap([i \in DOMAIN node.children |-> getSubtreeWidth(node.children[i])],
                           HORIZONTAL_SPACING, -HORIZONTAL_SPACING)
             r == forEachChildV(node, 1, node.x + Half(CARD_WIDTH) - Half(totalWidth))
         IN  [node |-> [node EXCEPT !.children = r.nodes], changed |-> r.changed]

layoutVertical(nodes) ==
    LET r == [i \in DOMAIN nodes |-> positionChildrenV(nodes[i])]
    IN  [nodes |-> [i \in DOMAIN nodes |-> r[i].node],
         changed |-> \E i \in DOMAIN nodes : r[i].changed]

RECURSIVE positionChildrenH(_)
RECURSIVE forEachChildH(_, _, _)
(* children.forEach of layoutHorizontal.positionChildren, from child i on  *)
forEachChildH(node, i, yOffset) ==
    IF i > Len(node.children) THEN [nodes |-> <<>>, changed |-> FALSE]
    ELSE LET child == node.children[i]
             childHeight == getSubtreeHeight(child)
             newX == node.x + Full(CARD_WIDTH) + Full(HORIZONTAL_SPACING)
             newY == yOffset + Half(childHeight) - Half(child.height)
             moved == Moves(child, newX, newY)
             placed == IF moved THEN [child EXCEPT !.x = newX, !.y = newY] ELSE child
             sub == positionChildrenH(placed)
             rest == forEachChildH(node, i + 1,
                                   yOffset + Full(childHeight + VERTICAL_SPACING))
         IN  [nodes |-> <<sub.node>> \o rest.nodes,
              changed |-> moved \/ sub.changed \/ rest.changed]

(* positionChildrenH with the stack starting at the parent's top edge.     *)
positionChildrenHUncentred(node) ==
    IF Len(node.children) = 0 THEN [node |-> node, changed |-> FALSE]
    ELSE LET r == forEachChildH(node, 1, node.y)
         IN  [node |-> [node EXCEPT !.children = r.nodes], changed |-> r.changed]

positionChildrenH(node) ==
    IF Len(node.children) = 0 THEN [node |-> node, changed |-> FALSE]
    ELSE LET totalHeight ==
                 ReduceGap([i \in DOMAIN node.children |-> getSubtreeHeight(node.children[i])],
                           VERTICAL_SPACING, -VERTICAL_SPACING)
             r == forEachChildH(node, 1, node.y + Half(node.height) - Half(totalHeight))
         IN  [node |-> [node EXCEPT !.children = r.nodes], changed |-> r.changed]

layoutHorizontal(nodes) ==
    LET r == [i \in DOMAIN nodes |-> positionChildrenH(nodes[i])]
    IN  [nodes |-> [i \in DOMAIN nodes |-> r[i].node],
         changed |-> \E i \in DOMAIN nodes : r[i].changed]

(* One run of the effect's body: the tree it would hand to setChatTree and *)
(* the value of hasChanges at the end.                                     *)
LayoutPass(chatTree, mode, clientHeight) ==
    LET newTree == JSONCopy(chatTree)
        h == updateHeights(newTree, clientHeight)
        l == IF mode = "horizontal" THEN layoutHorizontal(h.nodes)
             ELSE layoutVertical(h.nodes)
    IN  [newTree |-> l.nodes, hasChanges |-> h.changed \/ l.changed]

(* ---- state ------------------------------------------------------------ *)
VARIABLES
    chatTree,       \* the committed tree (React state of Home)
    layoutMode,     \* "horizontal" | "vertical"
    effectPending,  \* a render was committed and the layout effect is due
    clientHeight,   \* id -> rendered height of the card with that data-chat-id
    now,            \* the reading Date.now() returns
    requests,       \* the handleNewMessage calls that have not returned yet
    sends,          \* how many messages were sent so far
    drags,          \* how many drag moves were handled so far
    toggles,        \* how many times the layout mode was toggled so far
    budget,         \* the budget of this run (one of Budgets, never changed)
    selectionText,  \* the text handed to truncateSelection
    truncated,      \* what truncateSelection returned for it, once it has
    route,          \* the proxy route serving the request
    env,            \* process.env: which credentials are configured
    body,           \* the body of the request
    pc,             \* where the route's POST handler is
    caught,         \* the error its catch block was entered with
    response,       \* the Response it returned
    upstreamCalls,  \* the completion requests issued to the provider
    upstream,       \* what is left of the provider's token stream
    controller      \* the ReadableStream controller of the response body

clientVars == <<chatTree, layoutMode, effectPending, clientHeight, now, requests, sends,
                drags, toggles, budget>>

selectionVars == <<selectionText, truncated>>

routeVars == <<route, env, body, pc, caught, response, upstreamCalls, upstream, controller>>

vars == <<clientVars, selectionVars, routeVars>>

(* A running handleNewMessage: its chatId, where it waits ("fetch": on the *)
(* fetch; "read": on reader.read()), the response body it reads and how    *)
(* many chunks it has read.  single is history, not program state: the     *)
(* call began on a node that was the only one with its id and had no other *)
(* call running, and since then no message was sent to that id and no node *)
(* with that id was created or deleted.                                    *)
Request(chatId, single) ==
    [chatId |-> chatId, pc |-> "fetch", stream |-> <<>>, read |-> 0, single |-> single]

NodesWithId(nodes, id) ==
    LET f == flatten(nodes) IN {i \in DOMAIN f : f[i].id = id}

Disturb(reqs, id) ==
    [k \in DOMAIN reqs |->
        IF reqs[k].chatId = id THEN [reqs[k] EXCEPT !.single = FALSE] ELSE reqs[k]]

RemoveAt(s, k) == SubSeq(s, 1, k - 1) \o SubSeq(s, k + 1, Len(s))

(* The rendered heights after a commit in which the card of id may have    *)
(* changed its content: any height for that card, the others as they were. *)
Rerendered(id) ==
    {[clientHeight EXCEPT ![id] = h] : h \in Heights}

(* ---- the proxy routes: /api/assistant and the two /api/chat variants --- *)
(* One request is followed through one route's POST handler.  The prompt   *)
(* assembly (system message, quote, list-format hint) does not bear on the *)
(* handler's control flow and is left out.                                 *)
Routes == {"assistant", "chat", "chatTools"}

(* A JSON value, by its JavaScript type and its text.                      *)
JsonValue(type, text) == [type |-> type, text |-> text]

Undefined == JsonValue("undefined", "")

(* What the request can carry under the key prompt: nothing, the empty     *)
(* string, a string, a number.                                             *)
Prompts ==
    {Undefined, JsonValue("string", ""), JsonValue("string", "hi"), JsonValue("number", "42")}

(* !v is false exactly for these.                                          *)
Truthy(v) ==
    CASE v.type \in {"undefined", "null"} -> FALSE
      [] v.type = "string" -> v.text # ""
      [] v.type = "number" -> v.text \notin {"0", "-0"}
      [] v.type = "boolean" -> v.text = "true"
      [] OTHER -> TRUE

(* A request body: text that req.json() parses into an object with this    *)
(* prompt, or text it rejects.                                             *)
Bodies ==
    {[valid |-> TRUE, prompt |-> v] : v \in Prompts}
        \cup {[valid |-> FALSE, prompt |-> Undefined]}

(* process.env: whether each key is set.                                   *)
Envs == [OPENAI_API_KEY : BOOLEAN, PARALLEL_API_KEY : BOOLEAN]

(* Statuses with which the provider refuses a completion request.          *)
UpstreamStatuses == {401, 429}

(* A thrown error: an OpenAI.APIError with the provider's status, or any   *)
(* other exception.                                                        *)
ApiError(status) == [apiError |-> TRUE, status |-> status]
OtherError == [apiError |-> FALSE, status |-> 0]
Errors == {OtherError} \cup {ApiError(st) : st \in UpstreamStatuses}

(* An item of the provider's stream: a text delta (its text may be empty), *)
(* a call of the search tool, or an error part.                            *)
Part(type, text) == [type |-> type, text |-> text]

(* The provider's stream: the items it yields and whether the iteration    *)
(* then throws instead of ending; read counts the items consumed.          *)
Upstream(parts, throws) == [parts |-> parts, read |-> 0, throws |-> throws]
NoUpstream == Upstream(<<>>, FALSE)

UpstreamStreams ==
    {Upstream(ps, t) :
        ps \in { <<>>,
                 <<Part("text-delta", "He"), Part("text-delta", "")>>,
                 <<Part("tool-call", ""), Part("text-delta", "y")>> },
        t \in BOOLEAN}

(* The stream of a provider call that failed inside the ai library, which  *)
(* reports it as an error part.                                            *)
FailedStreams == {Upstream(<<Part("error", "")>>, t) : t \in BOOLEAN}

(* The controller of the response body: the state of its stream, the       *)
(* chunks enqueued, and the close() and error() calls made on it.          *)
NoController == [state |-> "none", enqueued |-> <<>>, calls |-> <<>>]
NewController == [state |-> "readable", enqueued |-> <<>>, calls |-> <<>>]

enqueue(c, text) == [c EXCEPT !.enqueued = Append(@, text)]

(* controller.close() throws a TypeError unless the stream is readable.    *)
close(c) ==
    [controller |-> [c EXCEPT !.state = IF @ = "readable" THEN "closed" ELSE @,
                              !.calls = Append(@, "close")],
     threw |-> c.state # "readable"]

(* controller.error(e) does nothing unless the stream is readable.         *)
error(c) ==
    [c EXCEPT !.state = IF @ = "readable" THEN "errored" ELSE @,
              !.calls = Append(@, "error")]

(* The stream's own reaction to a start() promise that rejects: it errors  *)
(* the controller, if it is still readable.                                *)
startRejected(c) == [c EXCEPT !.state = IF @ = "readable" THEN "errored" ELSE @]

Response(status, stream) == [status |-> status, stream |-> stream]
NoResponse == Response(0, FALSE)

(* The prompt check at the top of each handler.                            *)
promptRequired(r, prompt) ==
    IF r = "assistant" THEN ~Truthy(prompt) \/ prompt.type # "string"
    ELSE ~Truthy(prompt)

(* The status each handler's catch block answers with.                     *)
catchStatus(r, err) ==
    IF r = "chat" /\ err.apiError THEN err.status ELSE 500

(* search.execute: the tool's output has an answer only when the search    *)
(* key is set and the search request succeeds (ok) with some content.      *)
searchExecute(e, ok) ==
    IF ~e.PARALLEL_API_KEY THEN [error |-> "parallel api key is missing", answer |-> ""]
    ELSE IF ~ok THEN [error |-> "parallel error", answer |-> ""]
    ELSE [error |-> "", answer |-> "found"]

(* One turn of the for-await loop in start().                              *)
onPart(r, c, part, output) ==
    IF r = "chatTools"
    THEN IF part.type = "text-delta" THEN enqueue(c, part.text)
         ELSE IF part.type = "tool-call" /\ output.answer # ""
         THEN enqueue(c, output.answer)
         ELSE c
    ELSE IF part.type = "text-delta" /\ part.text # "" THEN enqueue(c, part.text)
         ELSE c

(* How start() ends once the loop is over, normally or by an exception     *)
(* thrown by the iteration (threw).                                        *)
startSettles(r, c, threw) ==
    CASE r = "assistant" ->
            LET afterCatch == IF threw THEN error(c) ELSE c
                closing == close(afterCatch)
            IN  IF closing.threw THEN startRejected(closing.controller)
                ELSE closing.controller
      [] r = "chat" ->
            IF threw THEN startRejected(c) ELSE close(c).controller
      [] OTHER ->
            LET closing == close(c)
            IN  IF threw \/ closing.threw THEN startRejected(closing.controller)
                ELSE closing.controller

(* The credential without which the route's provider call cannot succeed.  *)
providerKey(r, e) ==
    IF r = "assistant" THEN e.PARALLEL_API_KEY ELSE e.OPENAI_API_KEY

RouteIdle ==
    /\ route = "none"
    /\ env = [OPENAI_API_KEY |-> TRUE, PARALLEL_API_KEY |-> TRUE]
    /\ body = [valid |-> FALSE, prompt |-> Undefined]
    /\ pc = "idle"
    /\ caught = None
    /\ response = NoResponse
    /\ upstreamCalls = 0
    /\ upstream = NoUpstream
    /\ controller = NoController

SelectionIdle ==
    /\ selectionText = <<>>
    /\ truncated = None

Init ==
    /\ chatTree = InitialTree
    /\ layoutMode = "horizontal"
    /\ effectPending = TRUE
    /\ clientHeight \in [{RootId} -> Heights]
    /\ now = RootId + 1
    /\ requests = <<>>
    /\ sends = 0
    /\ drags = 0
    /\ toggles = 0
    /\ budget \in Budgets
    /\ SelectionIdle
    /\ RouteIdle

(* ---- actions ---------------------------------------------------------- *)
Tick ==
    /\ now < RootId + budget.clock
    /\ now' = now + 1
    /\ UNCHANGED <<chatTree, layoutMode, effectPending, clientHeight, requests, sends, drags, toggles, budget>>
    /\ UNCHANGED <<selectionVars, routeVars>>

(* The new card is rendered with some height; a card that shares its id    *)
(* with an earlier one is never the first match of querySelector.          *)
Mounted(id) ==
    IF id \in DOMAIN clientHeight THEN {clientHeight}
    ELSE {[j \in DOMAIN clientHeight \cup {id} |->
              IF j = id THEN h ELSE clientHeight[j]] : h \in Heights}

handleCreateFromSelection(sourceChatId, text) ==
    /\ ~effectPending
    /\ sourceChatId \in flatIds(chatTree)
    /\ Len(flatten(chatTree)) < budget.nodes
    /\ LET newNode == ChatNode(now, Some(truncateSelection(text)))
       IN  chatTree' = addChild(chatTree, sourceChatId, newNode)
    /\ clientHeight' \in Mounted(now)
    /\ requests' = Disturb(requests, now)
    /\ effectPending' = TRUE
    /\ UNCHANGED <<layoutMode, now, sends, drags, toggles, budget>>
    /\ UNCHANGED <<selectionVars, routeVars>>

(* The Branch button is rendered only on a card whose conversation is not  *)
(* empty.                                                                  *)
handleBranch(sourceChatId) ==
    /\ ~effectPending
    /\ \E i \in NodesWithId(chatTree, sourceChatId) :
           Len(flatten(chatTree)[i].conversation) > 0
    /\ Len(flatten(chatTree)) < budget.nodes
    /\ chatTree' = addChild(chatTree, sourceChatId, ChatNode(now, None))
    /\ clientHeight' \in Mounted(now)
    /\ requests' = Disturb(requests, now)
    /\ effectPending' = TRUE
    /\ UNCHANGED <<layoutMode, now, sends, drags, toggles, budget>>
    /\ UNCHANGED <<selectionVars, routeVars>>

(* isRoot without the comparison: no card counts as the root.              *)
isRootNever(chatId) == FALSE

(* isRoot = (chat.id === chatTree[0]?.id)                                  *)
isRoot(chatId) == chatTree # <<>> /\ chatId = chatTree[1].id

(* The delete button is rendered on every card but the one with isRoot.    *)
handleDelete(chatId) ==
    /\ ~effectPending
    /\ chatId \in flatIds(chatTree)
    /\ ~isRoot(chatId)
    /\ chatTree' = removeNode(chatTree, chatId)
    /\ clientHeight' = [j \in flatIds(chatTree') |-> clientHeight[j]]
    /\ requests' = [k \in DOMAIN requests |->
                       IF requests[k].chatId \in flatIds(chatTree') THEN requests[k]
                       ELSE [requests[k] EXCEPT !.single = FALSE]]
    /\ effectPending' = TRUE
    /\ UNCHANGED <<layoutMode, now, sends, drags, toggles, budget>>
    /\ UNCHANGED <<selectionVars, routeVars>>

handleChatPositionChange(chatId, x, y) ==
    /\ ~effectPending
    /\ drags < budget.drags
    /\ chatId \in flatIds(chatTree)
    /\ chatTree' = updatePosition(chatTree, chatId, x, y)
    /\ drags' = drags + 1
    /\ effectPending' = TRUE
    /\ UNCHANGED <<layoutMode, clientHeight, now, requests, sends, toggles, budget>>
    /\ UNCHANGED <<selectionVars, routeVars>>

ToggleLayoutMode ==
    /\ ~effectPending
    /\ toggles < budget.toggles
    /\ toggles' = toggles + 1
    /\ layoutMode' = IF layoutMode = "horizontal" THEN "vertical" ELSE "horizontal"
    /\ effectPending' = TRUE
    /\ UNCHANGED <<chatTree, clientHeight, now, requests, sends, drags, budget>>
    /\ UNCHANGED <<selectionVars, routeVars>>

(* handleNewMessage up to its first await: the user message is appended    *)
(* and the fetch is issued.  handleSend lets it start whenever the input   *)
(* is not blank.                                                           *)
handleNewMessage(chatId, message) ==
    /\ ~effectPending
    /\ sends < budget.sends
    /\ chatId \in flatIds(chatTree)
    /\ chatTree' = appendMessage(chatTree, chatId, message)
    /\ clientHeight' \in Rerendered(chatId)
    /\ LET single == /\ Cardinality(NodesWithId(chatTree, chatId)) = 1
                     /\ \A k \in DOMAIN requests : requests[k].chatId # chatId
       IN  requests' = Append(Disturb(requests, chatId), Request(chatId, single))
    /\ sends' = sends + 1
    /\ effectPending' = TRUE
    /\ UNCHANGED <<layoutMode, now, drags, toggles, budget>>
    /\ UNCHANGED <<selectionVars, routeVars>>

(* fetch() rejects: the handler ends with an exception, nothing is set.    *)
FetchRejected(k) ==
    /\ ~effectPending
    /\ k \in DOMAIN requests /\ requests[k].pc = "fetch"
    /\ requests' = RemoveAt(requests, k)
    /\ UNCHANGED <<chatTree, layoutMode, effectPending, clientHeight, now, sends, drags, toggles, budget>>
    /\ UNCHANGED <<selectionVars, routeVars>>

(* !res.ok                                                                 *)
FetchNotOk(k) ==
    /\ ~effectPending
    /\ k \in DOMAIN requests /\ requests[k].pc = "fetch"
    /\ chatTree' = setErrorState(chatTree, requests[k].chatId)
    /\ clientHeight' \in IF requests[k].chatId \in DOMAIN clientHeight
                         THEN Rerendered(requests[k].chatId) ELSE {clientHeight}
    /\ requests' = RemoveAt(requests, k)
    /\ effectPending' = TRUE
    /\ UNCHANGED <<layoutMode, now, sends, drags, toggles, budget>>
    /\ UNCHANGED <<selectionVars, routeVars>>

(* res.ok but !res.body: the handler returns at once.                      *)
FetchNoBody(k) ==
    /\ ~effectPending
    /\ k \in DOMAIN requests /\ requests[k].pc = "fetch"
    /\ requests' = RemoveAt(requests, k)
    /\ UNCHANGED <<chatTree, layoutMode, effectPending, clientHeight, now, sends, drags, toggles, budget>>
    /\ UNCHANGED <<selectionVars, routeVars>>

(* res.ok with a body: the placeholder is appended and the read loop       *)
(* starts.                                                                 *)
FetchOk(k, stream) ==
    /\ ~effectPending
    /\ k \in DOMAIN requests /\ requests[k].pc = "fetch"
    /\ chatTree' = addAssistantPlaceholder(chatTree, requests[k].chatId)
    /\ clientHeight' \in IF requests[k].chatId \in DOMAIN clientHeight
                         THEN Rerendered(requests[k].chatId) ELSE {clientHeight}
    /\ requests' = [requests EXCEPT ![k].pc = "read", ![k].stream = stream]
    /\ effectPending' = TRUE
    /\ UNCHANGED <<layoutMode, now, sends, drags, toggles, budget>>
    /\ UNCHANGED <<selectionVars, routeVars>>

(* One turn of the read loop with done = false: the chunk is decoded and   *)
(* appended.                                                               *)
ReadChunk(k) ==
    /\ ~effectPending
    /\ k \in DOMAIN requests /\ requests[k].pc = "read"
    /\ requests[k].read < Len(requests[k].stream)
    /\ LET chunkValue == decode(requests[k].stream[requests[k].read + 1])
       IN  chatTree' = appendResponseChunk(chatTree, requests[k].chatId, chunkValue)
    /\ clientHeight' \in IF chatTree' # chatTree
                         THEN Rerendered(requests[k].chatId) ELSE {clientHeight}
    /\ requests' = [requests EXCEPT ![k].read = @ + 1]
    /\ effectPending' = TRUE
    /\ UNCHANGED <<layoutMode, now, sends, drags, toggles, budget>>
    /\ UNCHANGED <<selectionVars, routeVars>>

(* The last turn: read() resolves with done = true and value undefined,    *)
(* decode(undefined) is the empty string, and the loop ends.               *)
ReadDone(k) ==
    /\ ~effectPending
    /\ k \in DOMAIN requests /\ requests[k].pc = "read"
    /\ requests[k].read = Len(requests[k].stream)
    /\ chatTree' = appendResponseChunk(chatTree, requests[k].chatId, decode(<<>>))
    /\ requests' = RemoveAt(requests, k)
    /\ effectPending' = TRUE
    /\ UNCHANGED <<layoutMode, clientHeight, now, sends, drags, toggles, budget>>
    /\ UNCHANGED <<selectionVars, routeVars>>

(* The layout effect: it runs after every commit that changed chatTree or  *)
(* layoutMode, and commits its tree only when hasChanges is set.           *)
LayoutEffect ==
    /\ effectPending
    /\ LET r == LayoutPass(chatTree, layoutMode, clientHeight)
       IN  IF r.hasChanges
           THEN chatTree' = r.newTree /\ effectPending' = TRUE
           ELSE chatTree' = chatTree /\ effectPending' = FALSE
    /\ UNCHANGED <<layoutMode, clientHeight, now, requests, sends, drags, toggles, budget>>
    /\ UNCHANGED <<selectionVars, routeVars>>

Next ==
    \/ Tick
    \/ \E id \in flatIds(chatTree), text \in Selections : handleCreateFromSelection(id, text)
    \/ \E id \in flatIds(chatTree) : handleBranch(id)
    \/ \E id \in flatIds(chatTree) : handleDelete(id)
    \/ \E id \in flatIds(chatTree), t \in DragTargets : handleChatPositionChange(id, t[1], t[2])
    \/ ToggleLayoutMode
    \/ \E id \in flatIds(chatTree), m \in Messages : handleNewMessage(id, m)
    \/ \E k \in DOMAIN requests : FetchRejected(k)
    \/ \E k \in DOMAIN requests : FetchNotOk(k)
    \/ \E k \in DOMAIN requests : FetchNoBody(k)
    \/ \E k \in DOMAIN requests, stream \in Streams : FetchOk(k, stream)
    \/ \E k \in DOMAIN requests : ReadChunk(k)
    \/ \E k \in DOMAIN requests : ReadDone(k)
    \/ LayoutEffect

Spec == Init /\ [][Next]_vars

(* ---- the canvas with its promises settling ---------------------------- *)
(* One budget with every kind of step in it, small enough for liveness.    *)
LiveBudget == Budget(MaxNodes - 2, MaxSends - 1, MaxDrags - 1, MaxClock - 1, MaxToggles - 1)

LiveInit ==
    /\ chatTree = InitialTree
    /\ layoutMode = "horizontal"
    /\ effectPending = TRUE
    /\ clientHeight \in [{RootId} -> Heights]
    /\ now = RootId + 1
    /\ requests = <<>>
    /\ sends = 0
    /\ drags = 0
    /\ toggles = 0
    /\ budget = LiveBudget
    /\ SelectionIdle
    /\ RouteIdle

(* The promise of fetch() settles, one way or another.                     *)
FetchSettles ==
    \E k \in DOMAIN requests :
        \/ FetchRejected(k)
        \/ FetchNotOk(k)
        \/ FetchNoBody(k)
        \/ \E stream \in Streams : FetchOk(k, stream)

(* The promise of reader.read() resolves.                                  *)
ReadSettles == \E k \in DOMAIN requests : ReadChunk(k) \/ ReadDone(k)

(* What the runtime does without the user: it runs the layout effect of a  *)
(* commit, and the continuation of a settled promise as soon as no commit  *)
(* is under way, however often the user's steps start another commit       *)
(* (hence the strong fairness); the user's clicks, drags and messages may  *)
(* stop at any time.                                                       *)
LiveSpec ==
    /\ LiveInit
    /\ [][Next]_vars
    /\ WF_vars(LayoutEffect)
    /\ SF_vars(FetchSettles)
    /\ SF_vars(ReadSettles)

(* ---- one request through a proxy route -------------------------------- *)
(* The canvas as it is when nothing has happened on it.                    *)
ClientIdle ==
    /\ chatTree = InitialTree
    /\ layoutMode = "horizontal"
    /\ effectPending = FALSE
    /\ clientHeight = [i \in {RootId} |-> RootHeight]
    /\ now = RootId + 1
    /\ requests = <<>>
    /\ sends = 0
    /\ drags = 0
    /\ toggles = 0
    /\ budget = Budget(0, 0, 0, 0, 0)

RouteInit ==
    /\ ClientIdle
    /\ SelectionIdle
    /\ route \in Routes
    /\ env \in Envs
    /\ body \in Bodies
    /\ pc = "load"
    /\ caught = None
    /\ response = NoResponse
    /\ upstreamCalls = 0
    /\ upstream = NoUpstream
    /\ controller = NoController

(* The module scope of the route file.  Only the plain /api/chat builds    *)
(* its client there, from process.env.OPENAI_API_KEY: with the key unset   *)
(* the constructor either throws, and the route never loads, or returns a  *)
(* client without a key.                                                   *)
ModuleLoad ==
    /\ pc = "load"
    /\ pc' \in IF route = "chat" /\ ~env.OPENAI_API_KEY
               THEN {"loadFailed", "request"} ELSE {"request"}
    /\ UNCHANGED <<route, env, body, caught, response, upstreamCalls, upstream, controller>>
    /\ UNCHANGED <<clientVars, selectionVars>>

(* POST up to the provider call: req.json(), the prompt check, the key     *)
(* check of /api/assistant, and the call of the provider's completion      *)
(* method (counted in upstreamCalls).                                      *)
POST ==
    /\ pc = "request"
    /\ IF ~body.valid
       THEN /\ caught' = Some(OtherError)
            /\ response' = Response(catchStatus(route, OtherError), FALSE)
            /\ pc' = "done"
            /\ UNCHANGED upstreamCalls
       ELSE IF promptRequired(route, body.prompt)
       THEN /\ response' = Response(400, FALSE)
            /\ pc' = "done"
            /\ UNCHANGED <<caught, upstreamCalls>>
       ELSE IF route = "assistant" /\ ~env.PARALLEL_API_KEY
       THEN /\ response' = Response(500, FALSE)
            /\ pc' = "done"
            /\ UNCHANGED <<caught, upstreamCalls>>
       ELSE /\ upstreamCalls' = upstreamCalls + 1
            /\ pc' = "create"
            /\ UNCHANGED <<caught, response>>
    /\ UNCHANGED <<route, env, body, upstream, controller>>
    /\ UNCHANGED <<clientVars, selectionVars>>

(* The provider call resolves with a token stream: the handler builds the  *)
(* ReadableStream, whose start() begins the loop, and returns the          *)
(* streaming Response (status 200).  Without the provider's key no call    *)
(* succeeds; the ai library may report a failed call as an error part.     *)
CreateResolves(st) ==
    /\ pc = "create"
    /\ \/ providerKey(route, env) /\ st \in UpstreamStreams
       \/ route = "chatTools" /\ st \in FailedStreams
    /\ upstream' = st
    /\ controller' = NewController
    /\ response' = Response(200, TRUE)
    /\ pc' = "streaming"
    /\ UNCHANGED <<route, env, body, caught, upstreamCalls>>
    /\ UNCHANGED <<clientVars, selectionVars>>

(* The provider call throws: the catch block answers.                      *)
CreateRejects(err) ==
    /\ pc = "create"
    /\ caught' = Some(err)
    /\ response' = Response(catchStatus(route, err), FALSE)
    /\ pc' = "done"
    /\ UNCHANGED <<route, env, body, upstreamCalls, upstream, controller>>
    /\ UNCHANGED <<clientVars, selectionVars>>

(* One item of the provider's stream reaches the loop in start(); ok is    *)
(* the outcome of the search request a tool call makes.                    *)
StreamPart(ok) ==
    /\ pc = "streaming"
    /\ upstream.read < Len(upstream.parts)
    /\ controller' = onPart(route, controller, upstream.parts[upstream.read + 1],
                            searchExecute(env, ok))
    /\ upstream' = [upstream EXCEPT !.read = @ + 1]
    /\ UNCHANGED <<route, env, body, pc, caught, response, upstreamCalls>>
    /\ UNCHANGED <<clientVars, selectionVars>>

(* The provider's stream ends.                                             *)
StreamEnds ==
    /\ pc = "streaming"
    /\ upstream.read = Len(upstream.parts) /\ ~upstream.throws
    /\ controller' = startSettles(route, controller, FALSE)
    /\ pc' = "done"
    /\ UNCHANGED <<route, env, body, caught, response, upstreamCalls, upstream>>
    /\ UNCHANGED <<clientVars, selectionVars>>

(* The iteration of the provider's stream throws.                          *)
StreamThrows ==
    /\ pc = "streaming"
    /\ upstream.read = Len(upstream.parts) /\ upstream.throws
    /\ controller' = startSettles(route, controller, TRUE)
    /\ pc' = "done"
    /\ UNCHANGED <<route, env, body, caught, response, upstreamCalls, upstream>>
    /\ UNCHANGED <<clientVars, selectionVars>>

RouteNext ==
    \/ ModuleLoad
    \/ POST
    \/ \E st \in UpstreamStreams \cup FailedStreams : CreateResolves(st)
    \/ \E err \in Errors : CreateRejects(err)
    \/ \E ok \in BOOLEAN : StreamPart(ok)
    \/ StreamEnds
    \/ StreamThrows

RouteSpec == RouteInit /\ [][RouteNext]_vars

(* ---- truncateSelection on its own ------------------------------------- *)
Rep(c, n) == [i \in 1..n |-> c]

(* Lines a selection can be made of: an empty one, a blank one, a short    *)
(* one, two that together with the joining space are just over the cap     *)
(* (and, the shorter taken twice, just within it), and one over the cap by  *)
(* itself.                                                                 *)
Lines ==
    { <<>>, <<" ">>, <<"a">>, Rep("b", (maxChars \div 2) - 1), Rep("c", maxChars \div 2),
      Rep("d", maxChars + 1) }

(* sel.toString(): up to MaxLines lines, each but the last ended by a       *)
(* newline.                                                                *)
Texts ==
    UNION { {Join(ls, "\n") : ls \in [1..n -> Lines]} : n \in 1..MaxLines }

SelectionInit ==
    /\ ClientIdle
    /\ RouteIdle
    /\ selectionText \in Texts
    /\ truncated = None

(* quotedText: truncateSelection(text)                                     *)
CallTruncateSelection ==
    /\ truncated = None
    /\ truncated' = Some(truncateSelection(selectionText))
    /\ UNCHANGED <<selectionText, clientVars, routeVars>>

SelectionNext == CallTruncateSelection

SelectionSpec == SelectionInit /\ [][SelectionNext]_vars

(* ======================================================================= *)
(* Properties                                                              *)
(* ======================================================================= *)
(* A node is named by its path: the child indices from the top level down. *)
RECURSIVE Paths(_)
Paths(nodes) ==
    UNION { {<<i>>} \cup { <<i>> \o p : p \in Paths(nodes[i].children) } : i \in DOMAIN nodes }

RECURSIVE At(_, _)
At(nodes, p) ==
    IF Len(p) = 1 THEN nodes[p[1]] ELSE At(nodes[p[1]].children, Tail(p))

IsPrefix(q, p) == Len(q) <= Len(p) /\ SubSeq(p, 1, Len(q)) = q
IsProperPrefix(q, p) == Len(q) < Len(p) /\ IsPrefix(q, p)

UniqueIds(nodes) == Cardinality(flatIds(nodes)) = Len(flatten(nodes))

ChildIds(node) == [i \in DOMAIN node.children |-> node.children[i].id]

RECURSIVE Without(_, _)
Without(ids, id) ==
    IF ids = <<>> THEN <<>>
    ELSE IF Head(ids) = id THEN Without(Tail(ids), id)
    ELSE <<Head(ids)>> \o Without(Tail(ids), id)

(* The path of the node with this id, in a tree with unique ids.           *)
PathOf(nodes, id) == CHOOSE p \in Paths(nodes) : At(nodes, p).id = id

SameButChildren(a, b) ==
    /\ a.id = b.id /\ a.quotedText = b.quotedText
    /\ a.x = b.x /\ a.y = b.y /\ a.height = b.height
    /\ a.manualPosition = b.manualPosition
    /\ a.conversation = b.conversation /\ a.isThinking = b.isThinking

(* ---- C1 --------------------------------------------------------------- *)
(* C1: on a tree with unique ids, deleting id removes exactly the node     *)
(* with that id and its descendants: the flattened list shrinks by one     *)
(* plus the number of descendants, and every other node is still there     *)
(* with its id, conversation, position and other fields, its remaining     *)
(* children in their old order.                                            *)
DeleteRemovesSubtree(nodes, id) ==
    LET after == removeNode(nodes, id)
        doomed == At(nodes, PathOf(nodes, id))
        gone == {id} \cup flatIds(doomed.children)
    IN  /\ Len(flatten(after)) = Len(flatten(nodes)) - (1 + Len(flatten(doomed.children)))
        /\ flatIds(after) = flatIds(nodes) \ gone
        /\ UniqueIds(after)
        /\ \A j \in flatIds(after) :
               LET a == At(after, PathOf(after, j))
                   b == At(nodes, PathOf(nodes, j))
               IN  /\ SameButChildren(a, b)
                   /\ ChildIds(a) = Without(ChildIds(b), id)

C1_DeleteRemovesSubtree ==
    UniqueIds(chatTree) =>
        \A id \in flatIds(chatTree) : DeleteRemovesSubtree(chatTree, id)

(* A node with two descendants is deleted and three nodes go, while        *)
(* another node stays.                                                     *)
C1_Witness ==
    /\ UniqueIds(chatTree)
    /\ \E id \in flatIds(chatTree) \ {chatTree[1].id} :
           /\ Len(flatten(At(chatTree, PathOf(chatTree, id)).children)) = 2
           /\ Len(flatten(removeNode(chatTree, id))) = Len(flatten(chatTree)) - 3
           /\ Len(flatten(removeNode(chatTree, id))) >= 1

(* ---- C2 --------------------------------------------------------------- *)
(* C2: updatePosition(id, x, y) puts the node with that id at (x, y) and   *)
(* flags it manual, moves each of its descendants, at every depth, by the  *)
(* node's own delta, and leaves every other node's position and flag       *)
(* alone; no node's id, conversation or children order changes.  (Should   *)
(* an id occur twice, "the node with that id" is each node with it that    *)
(* has no ancestor with it.)                                               *)
Dragged(nodes, id) ==
    {p \in Paths(nodes) :
        /\ At(nodes, p).id = id
        /\ \A q \in Paths(nodes) : IsProperPrefix(q, p) => At(nodes, q).id # id}

DragMovesSubtree(nodes, id, x, y) ==
    LET after == updatePosition(nodes, id, x, y)
        hit == Dragged(nodes, id)
    IN  /\ Paths(after) = Paths(nodes)
        /\ \A p \in Paths(nodes) :
               LET a == At(after, p)
                   b == At(nodes, p)
                   above == {q \in hit : IsProperPrefix(q, p)}
               IN  /\ a.id = b.id /\ a.conversation = b.conversation
                   /\ a.quotedText = b.quotedText /\ a.height = b.height
                   /\ a.isThinking = b.isThinking
                   /\ IF p \in hit
                      THEN a.x = x /\ a.y = y /\ a.manualPosition
                      ELSE IF above # {}
                      THEN \E q \in above :
                               /\ a.x = b.x + (x - At(nodes, q).x)
                               /\ a.y = b.y + (y - At(nodes, q).y)
                               /\ a.manualPosition = b.manualPosition
                      ELSE /\ a.x = b.x /\ a.y = b.y
                           /\ a.manualPosition = b.manualPosition

C2_DragMovesSubtree ==
    \A id \in flatIds(chatTree), t \in DragTargets :
        DragMovesSubtree(chatTree, id, t[1], t[2])

(* A node with a grandchild is dragged by a non-zero delta while a node    *)
(* outside its subtree exists, and the grandchild has moved by the delta.  *)
C2_Witness ==
    /\ UniqueIds(chatTree)
    /\ \E p \in Paths(chatTree), t \in DragTargets :
           LET n == At(chatTree, p)
               after == updatePosition(chatTree, n.id, t[1], t[2])
           IN  /\ Len(p) = 2
               /\ t[1] # n.x /\ t[2] # n.y
               /\ <<p[1], p[2], 1, 1>> \in Paths(chatTree)
               /\ At(after, <<p[1], p[2], 1, 1>>).x =
                      At(chatTree, <<p[1], p[2], 1, 1>>).x + (t[1] - n.x)
               /\ At(after, <<1>>).x = At(chatTree, <<1>>).x

(* ---- C3 --------------------------------------------------------------- *)
Modes == {"horizontal", "vertical"}

(* C3: the layout pass is idempotent: run on its own output with the same  *)
(* heights and mode, it changes no node and leaves hasChanges false, in    *)
(* either mode and from every tree the program reaches.                    *)
C3_LayoutIdempotent ==
    \A mode \in Modes :
        LET first == LayoutPass(chatTree, mode, clientHeight)
            second == LayoutPass(first.newTree, mode, clientHeight)
        IN  second.newTree = first.newTree /\ ~second.hasChanges

(* A first pass that moves a node, on a tree with a manually positioned    *)
(* node, followed by a second pass that reports nothing.                   *)
C3_Witness ==
    /\ Len(flatten(chatTree)) >= 3
    /\ \E p \in Paths(chatTree) : At(chatTree, p).manualPosition
    /\ LET first == LayoutPass(chatTree, layoutMode, clientHeight)
       IN  /\ first.hasChanges
           /\ \E p \in Paths(chatTree) : At(first.newTree, p).x # At(chatTree, p).x
           /\ ~LayoutPass(first.newTree, layoutMode, clientHeight).hasChanges

(* ---- C4 --------------------------------------------------------------- *)
(* The height of the slot a subtree takes in the horizontal layout.        *)
RECURSIVE SlotHeight(_)
SlotHeight(node) ==
    LET k == Len(node.children)
    IN  IF k = 0 THEN node.height
        ELSE Max(node.height,
                 SumSeq([i \in 1..k |-> SlotHeight(node.children[i])]) + 80 * (k - 1))

HorizontalAt(n) ==
    LET k == Len(n.children)
        slot == [i \in 1..k |-> SlotHeight(n.children[i])]
        total == SumSeq(slot) + 80 * (k - 1)
        top(i) == n.y + Half(n.height) - Half(total)
                      + Full(SumSeq(SubSeq(slot, 1, i - 1)) + 80 * (i - 1))
    IN  \A i \in 1..k :
            ~n.children[i].manualPosition =>
                /\ n.children[i].x = n.x + Full(700 + 100)
                /\ n.children[i].y = top(i) + Half(slot[i]) - Half(n.children[i].height)

HorizontalExample(n) ==
    ( /\ n.y = Full(500) /\ n.height = 200 /\ Len(n.children) = 2
      /\ \A i \in 1..2 : /\ n.children[i].children = <<>>
                         /\ n.children[i].height = 100
                         /\ ~n.children[i].manualPosition )
    => n.children[1].y = Full(460) /\ n.children[2].y = Full(640)

HorizontalLaidOut(nodes) ==
    \A p \in Paths(nodes) : HorizontalAt(At(nodes, p)) /\ HorizontalExample(At(nodes, p))

(* C4: after a horizontal pass every non-manual child is 700 + 100 to the  *)
(* right of its parent, and the children's slots (slot height: the larger  *)
(* of the node's height and its children's slots plus gaps of 80) are      *)
(* stacked in child order, 80 apart, the stack centred on the parent's     *)
(* centre, each child centred in its slot; a parent at y = 500 of height   *)
(* 200 with two leaf children of height 100 has them at y = 460 and 640.   *)
(* So is every tree the horizontal mode has settled.                       *)
C4_HorizontalLayout ==
    /\ HorizontalLaidOut(LayoutPass(chatTree, "horizontal", clientHeight).newTree)
    /\ (~effectPending /\ layoutMode = "horizontal") => HorizontalLaidOut(chatTree)

(* The settled tree of the example: the root at y = 500, 200 high, with    *)
(* two leaf children 100 high at y = 460 and y = 640.                      *)
C4_Witness ==
    /\ ~effectPending /\ layoutMode = "horizontal"
    /\ LET n == chatTree[1]
       IN  /\ n.y = Full(500) /\ n.height = 200 /\ Len(n.children) = 2
           /\ \A i \in 1..2 : /\ n.children[i].children = <<>>
                              /\ n.children[i].height = 100
                              /\ ~n.children[i].manualPosition
           /\ n.children[1].y = Full(460) /\ n.children[2].y = Full(640)
           /\ n.children[1].x = n.x + Full(800)

(* ---- C5 --------------------------------------------------------------- *)
(* The width of the slot a subtree takes in the vertical layout.           *)
RECURSIVE SlotWidth(_)
SlotWidth(node) ==
    LET k == Len(node.children)
    IN  IF k = 0 THEN 700
        ELSE SumSeq([i \in 1..k |-> SlotWidth(node.children[i])]) + 100 * (k - 1)

VerticalAt(n) ==
    LET k == Len(n.children)
        slot == [i \in 1..k |-> SlotWidth(n.children[i])]
        total == SumSeq(slot) + 100 * (k - 1)
        left(i) == n.x + Full(350) - Half(total)
                       + Full(SumSeq(SubSeq(slot, 1, i - 1)) + 100 * (i - 1))
    IN  \A i \in 1..k :
            ~n.children[i].manualPosition =>
                /\ n.children[i].y = n.y + Full(n.height + 80)
                /\ n.children[i].x = left(i) + Half(slot[i]) - Half(700)

VerticalLaidOut(nodes) == \A p \in Paths(nodes) : VerticalAt(At(nodes, p))

(* C5: after a vertical pass every non-manual child is its parent's height *)
(* plus 80 below its parent, and the children's slots (slot width: 700 for *)
(* a leaf, else the children's slots plus gaps of 100) lie left to right   *)
(* in child order, 100 apart, the row centred under the parent's centre    *)
(* (x + 350), each child centred in its slot.  So is every tree the        *)
(* vertical mode has settled.                                              *)
C5_VerticalLayout ==
    /\ VerticalLaidOut(LayoutPass(chatTree, "vertical", clientHeight).newTree)
    /\ (~effectPending /\ layoutMode = "vertical") => VerticalLaidOut(chatTree)

(* A settled vertical tree whose root has two children, one of them with   *)
(* children of its own.                                                    *)
C5_Witness ==
    /\ ~effectPending /\ layoutMode = "vertical"
    /\ LET n == chatTree[1]
       IN  /\ Len(n.children) = 2
           /\ Len(n.children[1].children) >= 1
           /\ \A i \in 1..2 : ~n.children[i].manualPosition
           /\ n.children[1].y = n.y + Full(n.height + 80)
           /\ n.children[2].x = n.children[1].x + Full(SlotWidth(n.children[1]) + 100)
                                    - Half(SlotWidth(n.children[1])) + Half(700)

(* ---- C6 --------------------------------------------------------------- *)
(* C6: a layout pass, in either mode and in every state the program        *)
(* reaches, leaves the root and every manually positioned node where they  *)
(* are, and still places the non-manual children of a manually positioned  *)
(* node relative to where that node is.                                    *)
C6_ManualAndRootStay ==
    \A mode \in Modes :
        LET after == LayoutPass(chatTree, mode, clientHeight).newTree
        IN  /\ Paths(after) = Paths(chatTree)
            /\ \A p \in Paths(chatTree) :
                   LET a == At(after, p)
                       b == At(chatTree, p)
                   IN  /\ (Len(p) = 1 \/ b.manualPosition) =>
                              a.x = b.x /\ a.y = b.y /\ a.manualPosition = b.manualPosition
                       /\ b.manualPosition =>
                              \A i \in DOMAIN a.children :
                                  ~a.children[i].manualPosition =>
                                      IF mode = "horizontal"
                                      THEN a.children[i].x = b.x + Full(800)
                                      ELSE a.children[i].y = b.y + Full(a.height + 80)

(* In vertical mode, after a toggle, a pass is due on a tree where a       *)
(* dragged node other than the root has a child that the pass moves.       *)
C6_Witness ==
    /\ effectPending /\ layoutMode = "vertical"
    /\ \E p \in Paths(chatTree) :
           LET b == At(chatTree, p)
               a == At(LayoutPass(chatTree, layoutMode, clientHeight).newTree, p)
           IN  /\ Len(p) > 1 /\ b.manualPosition
               /\ Len(b.children) > 0 /\ ~b.children[1].manualPosition
               /\ a.children[1].y # b.children[1].y
               /\ a.x = b.x /\ a.y = b.y

(* ---- C7 --------------------------------------------------------------- *)
(* The text of the first n chunks of a response body, each decoded on its  *)
(* own, in order.                                                          *)
RECURSIVE Decoded(_, _)
Decoded(stream, n) ==
    IF n = 0 THEN "" ELSE Decoded(stream, n - 1) \o decode(stream[n])

LastMessageIs(nodes, id, role, content) ==
    /\ NodesWithId(nodes, id) # {}
    /\ \A i \in NodesWithId(nodes, id) :
           LET c == flatten(nodes)[i].conversation
           IN  Len(c) > 0 /\ c[Len(c)].role = role /\ c[Len(c)].content = content

C7_WhileReading ==
    \A k \in DOMAIN requests :
        (requests[k].single /\ requests[k].pc = "read") =>
            LastMessageIs(chatTree, requests[k].chatId, "assistant",
                          Decoded(requests[k].stream, requests[k].read))

C7_AtStreamEnd ==
    \A k \in DOMAIN requests :
        ( /\ requests[k].single /\ requests[k].pc = "read"
          /\ requests[k].read = Len(requests[k].stream)
          /\ requests' = RemoveAt(requests, k) ) =>
            LastMessageIs(chatTree', requests[k].chatId, "assistant",
                          Decoded(requests[k].stream, Len(requests[k].stream)))

(* C7: for a single sendMessage on a node with a successful response, the  *)
(* node's last message is, from the placeholder on and after every read,   *)
(* an assistant message holding the chunks received so far, decoded and    *)
(* concatenated in receipt order (empty before the first chunk), and when  *)
(* the stream ends it holds all of them.                                   *)
C7_StreamAppendsInOrder == []C7_WhileReading /\ [][C7_AtStreamEnd]_vars

(* The chunks "Hel", "lo", " world" have all been read and the node's last *)
(* message is "Hello world".                                               *)
C7_Witness ==
    \E k \in DOMAIN requests :
        /\ requests[k].single /\ requests[k].pc = "read"
        /\ requests[k].stream = << <<"Hel">>, <<"lo">>, <<" world">> >>
        /\ requests[k].read = 3
        /\ LastMessageIs(chatTree, requests[k].chatId, "assistant", "Hello world")

(* ---- C8 --------------------------------------------------------------- *)
(* C8: no two running sendMessage calls (thinking or reading) are for the  *)
(* same node.                                                              *)
C8_OneStreamPerNode ==
    \A k1, k2 \in DOMAIN requests :
        k1 # k2 => requests[k1].chatId # requests[k2].chatId

(* ---- C9 --------------------------------------------------------------- *)
DecodedChunks ==
    {""} \cup UNION { {decode(st[i]) : i \in DOMAIN st} : st \in Streams }

(* The conversation grew out of the old one: nothing that was there is     *)
(* gone or rewritten, but the last message's text may have got a chunk.    *)
ConversationKept(old, new) ==
    /\ Len(new) >= Len(old)
    /\ \A i \in 1..Len(old) :
           /\ new[i].role = old[i].role
           /\ IF i < Len(old) THEN new[i].content = old[i].content
              ELSE \E c \in DecodedChunks : new[i].content = old[i].content \o c

C9_Step ==
    IF Len(flatten(chatTree')) >= Len(flatten(chatTree))
    THEN \A p \in Paths(chatTree) :
             /\ p \in Paths(chatTree')
             /\ LET b == At(chatTree, p)
                    a == At(chatTree', p)
                IN  /\ a.id = b.id /\ a.quotedText = b.quotedText
                    /\ ConversationKept(b.conversation, a.conversation)
                    /\ b.manualPosition => a.manualPosition
                    /\ ((b.manualPosition \/ Len(p) = 1) /\ drags' = drags) =>
                           a.x = b.x /\ a.y = b.y
    ELSE \A i \in DOMAIN flatten(chatTree') :
             \E j \in DOMAIN flatten(chatTree) :
                 flatten(chatTree')[i] = flatten(chatTree)[j]

(* C9: no committed mutation is lost to a later update: in every step,     *)
(* whatever handler, stream callback or layout pass takes it, each node    *)
(* that is not deleted in it keeps its id, its quote and every message it  *)
(* had (the last one at most extended), a manual flag stays set, and a     *)
(* dragged node or the root moves only by a drag; a delete leaves the      *)
(* surviving nodes as they were.                                           *)
C9_NoLostUpdate == [][C9_Step]_vars

(* Two streams are being read into two different nodes, and each node      *)
(* holds exactly what its stream delivered so far, with a layout pass due. *)
C9_Witness ==
    /\ effectPending
    /\ \E k1, k2 \in DOMAIN requests :
           /\ requests[k1].chatId # requests[k2].chatId
           /\ \A k \in {k1, k2} :
                  /\ requests[k].pc = "read" /\ requests[k].read >= 1
                  /\ LastMessageIs(chatTree, requests[k].chatId, "assistant",
                                   Decoded(requests[k].stream, requests[k].read))

(* ---- C10 -------------------------------------------------------------- *)
(* C10: no two nodes of the tree share an id.                              *)
C10_UniqueIds == UniqueIds(chatTree)

(* ---- C11 -------------------------------------------------------------- *)
(* C11: in every reachable state the tree has exactly one top-level node,  *)
(* and it is the initial root (id 1): no sequence of branch, create,       *)
(* delete, drag, send and layout steps removes it or adds a second one.    *)
C11_OneRoot ==
    /\ Len(chatTree) = 1
    /\ chatTree[1].id = RootId
    /\ chatTree[1].quotedText = None

(* A card was deleted (a call still running for it finds no node of its    *)
(* id), the root has been sent a message and has a child left.             *)
C11_Witness ==
    /\ Len(chatTree) = 1 /\ chatTree[1].id = RootId
    /\ Len(chatTree[1].children) >= 1
    /\ \E k \in DOMAIN requests : requests[k].chatId \notin flatIds(chatTree)

(* ---- C12 -------------------------------------------------------------- *)
(* Ids a stale click can carry: every id the clock can have handed out,    *)
(* and 0, which no node ever has.                                          *)
IdsTried == 0..(RootId + MaxClock)

(* C12: createFromSelection with a source id that matches no node of the   *)
(* tree is a no-op: the updater returns a tree equal to the current one    *)
(* (same nodes, ids, conversations, positions, child order); the updater   *)
(* is total, so nothing is raised.                                         *)
C12_MissingSourceNoOp ==
    \A id \in IdsTried \ flatIds(chatTree), text \in Selections :
        addChild(chatTree, id, ChatNode(now, Some(truncateSelection(text)))) = chatTree

(* A card that was sent a message has been deleted, cards with and without *)
(* children remain, and a create aimed at the deleted card's id changes    *)
(* nothing.                                                                *)
C12_Witness ==
    /\ Len(flatten(chatTree)) >= 2
    /\ \E k \in DOMAIN requests :
           /\ requests[k].chatId \notin flatIds(chatTree)
           /\ requests[k].chatId \in IdsTried
           /\ \A text \in Selections :
                  addChild(chatTree, requests[k].chatId,
                           ChatNode(now, Some(truncateSelection(text)))) = chatTree

(* ---- C13 -------------------------------------------------------------- *)
(* after is before plus one node: a new last child, with this quote, an    *)
(* empty conversation, no children and no manual flag, of a node with id   *)
(* sourceChatId; every node of before is where it was, unchanged.          *)
AddsOneChild(before, after, sourceChatId, quote) ==
    \E p \in Paths(before) :
        LET q == p \o <<Len(At(before, p).children) + 1>>
        IN  /\ At(before, p).id = sourceChatId
            /\ Paths(after) = Paths(before) \cup {q}
            /\ LET new == At(after, q)
               IN  /\ new.quotedText = quote /\ new.conversation = <<>>
                   /\ new.children = <<>> /\ ~new.manualPosition
            /\ \A r \in Paths(before) : SameButChildren(At(after, r), At(before, r))

C13_Step ==
    \A id \in flatIds(chatTree) :
        /\ handleBranch(id) => AddsOneChild(chatTree, chatTree', id, None)
        /\ \A text \in Selections :
               handleCreateFromSelection(id, text) =>
                   AddsOneChild(chatTree, chatTree', id, Some(truncateSelection(text)))

(* C13: every branch(sourceId) and createFromSelection(sourceId, text)     *)
(* step adds exactly one node, as the last child of the source, empty and  *)
(* not manual, quoted with truncateSelection(text) or not at all, and      *)
(* keeps every earlier node's id, conversation, position and child order.  *)
C13_AddsExactlyOneChild == [][C13_Step]_vars

(* ---- C14 -------------------------------------------------------------- *)
(* C14: updatePosition(id, x, y) applied to its own result, with the same  *)
(* arguments, returns that result: the same tree, every position and flag  *)
(* of the node and its descendants included.                               *)
C14_DragTwiceIsOnce ==
    \A id \in flatIds(chatTree), t \in DragTargets :
        LET once == updatePosition(chatTree, id, t[1], t[2])
        IN  updatePosition(once, id, t[1], t[2]) = once

(* A drag was handled, and a node with a child can be dragged again to a   *)
(* place where it is not: once moves the tree, twice moves it no further.  *)
C14_Witness ==
    /\ drags >= 1
    /\ \E p \in Paths(chatTree), t \in DragTargets :
           LET once == updatePosition(chatTree, At(chatTree, p).id, t[1], t[2])
           IN  /\ Len(At(chatTree, p).children) >= 1
               /\ At(chatTree, p).manualPosition
               /\ once # chatTree
               /\ At(once, p \o <<1>>).x # At(chatTree, p \o <<1>>).x
               /\ updatePosition(once, At(chatTree, p).id, t[1], t[2]) = once

(* ---- C16 -------------------------------------------------------------- *)
(* What the call k leaves when its fetch resolves with a non-ok status:    *)
(* the tree as it was but for the thinking flag of the node it was sent    *)
(* to, and no call in its place.                                           *)
NotOkClearsThinking(k) ==
    LET id == requests[k].chatId
    IN  /\ Paths(chatTree') = Paths(chatTree)
        /\ \A p \in Paths(chatTree) :
               LET a == At(chatTree', p)
                   b == At(chatTree, p)
               IN  /\ a.id = b.id /\ a.quotedText = b.quotedText
                   /\ a.conversation = b.conversation
                   /\ a.x = b.x /\ a.y = b.y /\ a.height = b.height
                   /\ a.manualPosition = b.manualPosition
                   /\ IF p \in Dragged(chatTree, id) THEN ~a.isThinking
                      ELSE a.isThinking = b.isThinking
        /\ requests[k].single =>
               \E m \in Messages : LastMessageIs(chatTree', id, "user", m)
        /\ requests' = RemoveAt(requests, k)

C16_Step == \A k \in DOMAIN requests : FetchNotOk(k) => NotOkClearsThinking(k)

(* C16: when the fetch of sendMessage(nodeId, text) resolves with a        *)
(* non-ok status, the node with that id stops thinking and its             *)
(* conversation stays as it was (ending, when nothing else touched the     *)
(* node, with the user message just appended); no message is added, no     *)
(* other node changes and no second request is made.                       *)
C16_NotOkClearsThinking == [][C16_Step]_vars

(* A node whose conversation ends with the user's message and that is not  *)
(* thinking: only a non-ok response leaves that.  Another node exists.     *)
C16_Witness ==
    /\ Len(flatten(chatTree)) >= 2
    /\ \E i \in DOMAIN flatten(chatTree) :
           LET n == flatten(chatTree)[i]
           IN  /\ Len(n.conversation) >= 1
               /\ n.conversation[Len(n.conversation)].role = "user"
               /\ ~n.isThinking
               /\ \A k \in DOMAIN requests : requests[k].chatId # n.id

(* ---- C18 -------------------------------------------------------------- *)
IsPromptString(v) == v.type = "string" /\ v.text # ""

(* C18: in each of the three routes, a request whose body parses but whose *)
(* prompt is missing, empty or not a string is answered with 400, and the  *)
(* provider's completion method is never called for it.                    *)
C18_PromptValidated ==
    (body.valid /\ ~IsPromptString(body.prompt) /\ pc \in {"create", "streaming", "done"}) =>
        (response.status = 400 /\ upstreamCalls = 0)

(* ---- C19 -------------------------------------------------------------- *)
(* The search tool has run for this request.                               *)
SearchRan ==
    \E i \in 1..upstream.read : upstream.parts[i].type = "tool-call"

(* C19: a request with a prompt string that finds the route's credential   *)
(* unset is answered with a 500 that is no stream, by the handler (the     *)
(* route has loaded): /api/assistant and the search tool of the            *)
(* tool-augmented /api/chat without PARALLEL_API_KEY, the plain /api/chat  *)
(* without OPENAI_API_KEY.                                                 *)
C19_MissingCredentialIs500 ==
    (body.valid /\ IsPromptString(body.prompt)) =>
        /\ (route = "assistant" /\ ~env.PARALLEL_API_KEY /\ pc = "done") =>
               response = Response(500, FALSE)
        /\ (route = "chat" /\ ~env.OPENAI_API_KEY) =>
               /\ pc # "loadFailed"
               /\ pc = "done" => response = Response(500, FALSE)
        /\ (route = "chatTools" /\ ~env.PARALLEL_API_KEY /\ SearchRan) =>
               response = Response(500, FALSE)

(* ---- C20 -------------------------------------------------------------- *)
(* C20: in both /api/chat variants, whatever error the catch block is      *)
(* entered with (a body that does not parse, a provider error of any       *)
(* status, any other exception before the stream is returned), the         *)
(* response has status 500.                                                *)
C20_OtherFailuresAre500 ==
    (route \in {"chat", "chatTools"} /\ caught # None) => response.status = 500

(* ---- C15 -------------------------------------------------------------- *)
NonBlank(line) == \E i \in DOMAIN line : ~IsSpace(line[i])

(* The first two lines of the text that are not blank, joined by a space,  *)
(* cut to maxChars characters with an ellipsis behind them if longer.      *)
FirstTwoNonBlankLines(text) ==
    LET lines == SelectSeq(SplitLines(text, <<>>), NonBlank)
        joined == Join(SubSeq(lines, 1, IF Len(lines) < 2 THEN Len(lines) ELSE 2), " ")
    IN  IF Len(joined) > maxChars
        THEN SubSeq(joined, 1, maxChars) \o <<Ellipsis>>
        ELSE joined

(* C15: truncateSelection(text) is the first two non-blank lines of text   *)
(* (empty and whitespace-only lines skipped), joined by one space, cut to  *)
(* 240 characters, with a trailing ellipsis exactly when the joined text   *)
(* was longer than that.                                                   *)
C15_FirstTwoNonBlankLines ==
    truncated # None => truncated[1] = FirstTwoNonBlankLines(selectionText)

(* ---- C17 -------------------------------------------------------------- *)
NodeIds == RootId..(RootId + MaxClock)

Thinking(id) ==
    \E i \in NodesWithId(chatTree, id) : flatten(chatTree)[i].isThinking

ThinkingSetOnlyBySend ==
    \A id \in NodeIds :
        (~Thinking(id) /\ Thinking(id)') => \E m \in Messages : handleNewMessage(id, m)

(* C17: a node starts thinking only in a sendMessage on it, and a node     *)
(* that is thinking stops thinking at some later time, whatever the        *)
(* outcome of its request: a body to stream, a non-ok status, a response   *)
(* without a body, or a fetch that rejects.                                *)
C17_ThinkingIsTransient ==
    /\ [][ThinkingSetOnlyBySend]_vars
    /\ \A id \in NodeIds : Thinking(id) ~> ~Thinking(id)

(* ---- C21 -------------------------------------------------------------- *)
(* The iteration of the provider's stream threw after the response had     *)
(* started, and start() has run to its end.                                *)
IterationThrew == pc = "done" /\ response.stream /\ upstream.throws

Called(c, method) == \E i \in DOMAIN c.calls : c.calls[i] = method

(* C21: in each route, when the iteration of the provider's stream throws  *)
(* after the response has started, the response stream ends errored, not   *)
(* closed, and the handler has not both errored and closed its controller. *)
C21_StreamErrorSignalled ==
    IterationThrew =>
        /\ controller.state = "errored"
        /\ ~(Called(controller, "error") /\ Called(controller, "close"))

(* ---- C22 -------------------------------------------------------------- *)
NoManual(nodes) == \A p \in Paths(nodes) : ~At(nodes, p).manualPosition

(* The cards of a and b, CARD_WIDTH wide and as high as their height, have *)
(* a point in common.                                                      *)
Overlap(a, b) ==
    /\ a.x < b.x + Full(CARD_WIDTH) /\ b.x < a.x + Full(CARD_WIDTH)
    /\ a.y < b.y + Full(b.height) /\ b.y < a.y + Full(a.height)

NoOverlap(nodes) ==
    \A p, q \in Paths(nodes) : p # q => ~Overlap(At(nodes, p), At(nodes, q))

(* The tree with the root's subtrees there twice: the shapes with cousins  *)
(* of equal depth, which take more cards than a run's budget has.  The     *)
(* layout reads an id only to look up the card's height.                   *)
Doubled(nodes) ==
    [i \in DOMAIN nodes |-> [nodes[i] EXCEPT !.children = @ \o @]]

(* C22: a layout pass, in either mode, on a tree without manually          *)
(* positioned nodes leaves no two cards overlapping, whatever the shape of *)
(* the tree and the (positive) heights of its cards.                       *)
C22_NoOverlap ==
    NoManual(chatTree) =>
        \A mode \in Modes, tree \in {chatTree, Doubled(chatTree)} :
            NoOverlap(LayoutPass(tree, mode, clientHeight).newTree)

(* A laid-out tree of four cards, three levels deep, of unequal heights,   *)
(* none dragged: the pass has run (it finds nothing to change) and no two  *)
(* cards overlap, nor would they with the subtrees doubled.                *)
C22_Witness ==
    /\ ~effectPending
    /\ NoManual(chatTree)
    /\ Len(flatten(chatTree)) = MaxNodes
    /\ \E p \in Paths(chatTree) : Len(p) = 3
    /\ \E p, q \in Paths(chatTree) : At(chatTree, p).height # At(chatTree, q).height
    /\ ~LayoutPass(chatTree, layoutMode, clientHeight).hasChanges
    /\ NoOverlap(chatTree)
    /\ NoOverlap(LayoutPass(Doubled(chatTree), layoutMode, clientHeight).newTree)

(* ---- C23 -------------------------------------------------------------- *)
(* The conversation new is old with the text chunk added at the end of one *)
(* of its assistant messages.                                              *)
ChunkAppended(old, new, chunk) ==
    /\ Len(new) = Len(old)
    /\ \E i \in DOMAIN old :
           /\ old[i].role = "assistant"
           /\ new[i] = [old[i] EXCEPT !.content = @ \o chunk]
           /\ \A j \in DOMAIN old : j # i => new[j] = old[j]

(* The call k reads a chunk for a node that is in the tree: the chunk's    *)
(* text is added to an assistant message of the node with the call's id    *)
(* (of each outermost one, should several nodes have the id), and to the   *)
(* last message when no other send touched that id since the call began.   *)
ChunkKept(k) ==
    LET id == requests[k].chatId
        chunk == decode(requests[k].stream[requests[k].read + 1])
    IN  /\ \A p \in Dragged(chatTree, id) :
               /\ p \in Paths(chatTree')
               /\ ChunkAppended(At(chatTree, p).conversation,
                                At(chatTree', p).conversation, chunk)
        /\ requests[k].single =>
               LastMessageIs(chatTree', id, "assistant",
                             Decoded(requests[k].stream, requests[k].read + 1))

C23_Step ==
    \A k \in DOMAIN requests :
        (ReadChunk(k) /\ requests[k].chatId \in flatIds(chatTree)) => ChunkKept(k)

(* C23: every chunk read from a response stream for a node that is still   *)
(* in the tree is appended to that node's conversation, in its request's   *)
(* assistant message, under every interleaving of sends, reads and user    *)
(* actions, a second send on the same node during the first stream         *)
(* included.                                                               *)
C23_NoChunkDropped == [][C23_Step]_vars

(* ---- C24 -------------------------------------------------------------- *)
(* The conversation new is old with messages added at its end, or with     *)
(* text added at the end of its last message, an assistant message.        *)
AppendOnly(old, new) ==
    /\ Len(new) >= Len(old)
    /\ \A i \in 1..Len(old) :
           /\ new[i].role = old[i].role
           /\ new[i].content # old[i].content =>
                  /\ i = Len(old) /\ Len(new) = Len(old)
                  /\ old[i].role = "assistant"
                  /\ \E c \in DecodedChunks : new[i].content = old[i].content \o c

C24_Step ==
    IF Len(flatten(chatTree')) >= Len(flatten(chatTree))
    THEN \A p \in Paths(chatTree) :
             /\ p \in Paths(chatTree')
             /\ At(chatTree', p).id = At(chatTree, p).id
             /\ AppendOnly(At(chatTree, p).conversation, At(chatTree', p).conversation)
    ELSE \A i \in DOMAIN flatten(chatTree') :
             \E j \in DOMAIN flatten(chatTree) :
                 /\ flatten(chatTree')[i].id = flatten(chatTree)[j].id
                 /\ flatten(chatTree')[i].conversation = flatten(chatTree)[j].conversation

(* C24: a node's conversation is append-only while the node exists: in     *)
(* every step its message count does not decrease, no message changes its  *)
(* role, and a message's content changes only by text added at its end,    *)
(* and only when it is the last message and an assistant message.          *)
C24_AppendOnly == [][C24_Step]_vars

(* A node was sent to a second time after its first answer had begun to    *)
(* arrive: an assistant message with text is followed by a user message,   *)
(* and the first stream still has a chunk to deliver.                      *)
C24_Witness ==
    \E k \in DOMAIN requests, p \in Paths(chatTree) :
        LET c == At(chatTree, p).conversation
        IN  /\ At(chatTree, p).id = requests[k].chatId
            /\ requests[k].pc = "read"
            /\ requests[k].read < Len(requests[k].stream)
            /\ Len(c) >= 3
            /\ c[2].role = "assistant" /\ c[2].content # ""
            /\ c[Len(c)].role = "user"

(* ---- C25 -------------------------------------------------------------- *)
(* The effect ran and committed a tree.                                    *)
EffectWrote == LayoutEffect /\ chatTree' # chatTree

(* The pass the effect runs next, on the tree it committed: the rendered   *)
(* heights and the mode are those of the pass before, since no handler     *)
(* runs between a commit and the effect that follows it.                   *)
NextPass == LayoutPass(chatTree', layoutMode', clientHeight')

C25_Step ==
    EffectWrote =>
        /\ effectPending'
        /\ clientHeight' = clientHeight /\ layoutMode' = layoutMode
        /\ ~NextPass.hasChanges
        /\ NextPass.newTree = chatTree'

(* C25: the layout effect reaches a fixed point: when a pass writes a tree *)
(* the effect runs once more, with the same heights and mode, finds no     *)
(* change and writes nothing, so that the cycle of passes stops; in either *)
(* mode and whichever nodes are manually positioned.                       *)
C25_EffectSettles == [][C25_Step]_vars

(* The pass that follows a write is due and finds nothing to change, on a  *)
(* full canvas in the vertical layout.  No message was sent and no card    *)
(* dragged, and the canvas is full, so the handler before was a create, a  *)
(* branch or a toggle; each of these leaves a tree that the effect has to  *)
(* rewrite, so the step into this state was the effect's write.            *)
C25_Witness ==
    /\ effectPending
    /\ ~LayoutPass(chatTree, layoutMode, clientHeight).hasChanges
    /\ layoutMode = "vertical"
    /\ budget.nodes = MaxNodes /\ Len(flatten(chatTree)) = MaxNodes
    /\ sends = 0 /\ drags = 0
    /\ \E p \in Paths(chatTree) : Len(p) = 3

====
